---- MODULE Spec2Model ----
(***************************************************************************)
(* A model of tv_viewer/app.py: the Flask handlers /, /browse, /video,     *)
(* /stream, /play and /thumb, the transcode generator stream.generate and  *)
(* the encoder process it spawns.                                          *)
(*                                                                         *)
(* A request path is a sequence of segments plus a flag saying whether it  *)
(* is rooted ("D:/x", "\x"); a filesystem location is the sequence of      *)
(* names below the drive root D:\ .  Pipe data is counted in units of      *)
(* 512 KiB, so that one read(1024*1024) asks for ChunkUnits = 2 units.     *)
(***************************************************************************)
EXTENDS Integers, Sequences, FiniteSets, TLC

\* ------------------------------------------------------------------ bounds
MaxSegs == 2     \* longest request path, in segments
MaxReq == 2      \* requests (and so encoder processes) in one run
MaxOut == 3      \* units a complete encoding writes to stdout
PipeCap == 1     \* capacity of an OS pipe buffer, in units
FileLen == 2     \* length of every library file, in bytes

\* ------------------------------------------------------- program constants
ChunkUnits == 2  \* proc.stdout.read(1024*1024), in units of 512 KiB

BASE_DIR == <<"TV">>

\* --------------------------------------------------------------- filesystem
Dirs == { <<>>, <<"TV">>, <<"TV", "news">>, <<"TV", "show">> }
Files == { <<"ep.mp4">>, <<"index.jpg">>,
           <<"TV", "show", "ep.mp4">>, <<"TV", "show", "index.jpg">> }

Segs == { "..", "TV", "show", "ep.mp4", "index.jpg" }
SegSeqs == UNION { [1..n -> Segs] : n \in 1..MaxSegs }
Paths == [ abs : BOOLEAN, segs : SegSeqs ]

NoLoc == << "?" >>

VARIABLES req, proc

vars == << req, proc >>

Reqs == 1..MaxReq
Pids == 1..MaxReq

\* os.path.join(BASE_DIR, p): a rooted second argument discards the first.
join(base, p) == IF p.abs THEN p.segs ELSE base \o p.segs

\* What the filesystem makes of a joined path: ".." steps to the parent (the
\* drive root is its own parent), any other segment steps down.
RECURSIVE Normalize(_)
Normalize(s) ==
    IF s = <<>> THEN <<>>
    ELSE LET front == Normalize(SubSeq(s, 1, Len(s) - 1))
             last == s[Len(s)]
         IN  IF last = ".."
             THEN (IF front = <<>> THEN <<>> ELSE SubSeq(front, 1, Len(front) - 1))
             ELSE Append(front, last)

exists(fs, full_path) == Normalize(full_path) \in Dirs \cup fs
isfile(fs, full_path) == Normalize(full_path) \in fs

KindOf(fs, full_path) ==
    IF isfile(fs, full_path) THEN "file"
    ELSE IF exists(fs, full_path) THEN "dir" ELSE "none"

\* A location strictly inside the library root.
Inside(loc) ==
    /\ Len(loc) > Len(BASE_DIR)
    /\ SubSeq(loc, 1, Len(BASE_DIR)) = BASE_DIR

\* The bytes of the file at loc.
Content(loc) == [ i \in 1..FileLen |-> 10 * Len(loc) + i ]

\* ---------------------------------------------------------------- requests
\* One slot per request.  Fields: pc, the handler's (or generator's) position;
\* route; kind, what the joined path was when the handler looked; status, loc,
\* body, crange: the Response the handler built (loc: the file it serves);
\* rng: the Range header; dir, dirs, videos, other_files: the directory browse
\* listed and what it handed to the template; proc, spawns, buf, chunk, sent,
\* gone, how, wire: the transcode session (see stream and generate below).
IdleReq ==
    [ pc |-> "idle", route |-> "none", kind |-> "none", status |-> 0,
      loc |-> NoLoc, rng |-> <<>>, body |-> <<>>, crange |-> <<>>,
      dir |-> NoLoc, dirs |-> <<>>, videos |-> <<>>, other_files |-> <<>>,
      proc |-> 0, spawns |-> 0, buf |-> <<>>, chunk |-> <<>>, sent |-> <<>>,
      gone |-> FALSE, how |-> "none", wire |-> 0 ]

\* The Range headers tried: none, or bytes=n-m with n <= m.
Ranges == { <<>> } \cup { x \in (0..FileLen) \X (0..FileLen) : x[1] <= x[2] }

Min(a, b) == IF a < b THEN a ELSE b

\* A request takes the lowest free slot.
Free(r) == /\ req[r].pc = "idle"
           /\ \A q \in Reqs : q < r => req[q].pc # "idle"

\* A faulty variant of send_file: the Range header is ignored
\* (conditional=False).
send_file_ignoring_range(fs, full_path, rng) ==
    IF ~isfile(fs, full_path)
    THEN [ status |-> 500, body |-> <<>>, crange |-> <<>> ]
    ELSE [ status |-> 200, body |-> Content(Normalize(full_path)), crange |-> <<>> ]

\* Flask's send_file(path, mimetype=...) as the handlers call it: conditional
\* by default, so a Range header is honoured (werkzeug's range_for_length: a
\* first byte at or past the end is 416, a last byte past the end is clamped).
\* A path that is no regular file makes it raise.
send_file(fs, full_path, rng) ==
    LET data == Content(Normalize(full_path))
        L == Len(data)
    IN  IF ~isfile(fs, full_path)
        THEN [ status |-> 500, body |-> <<>>, crange |-> <<>> ]
        ELSE IF rng = <<>> \/ L = 0
        THEN [ status |-> 200, body |-> data, crange |-> <<>> ]
        ELSE IF rng[1] >= L
        THEN [ status |-> 416, body |-> <<>>, crange |-> <<>> ]
        ELSE LET stop == Min(rng[2] + 1, L)
             IN  [ status |-> 206,
                   body |-> SubSeq(data, rng[1] + 1, stop),
                   crange |-> << rng[1], stop - 1, L >> ]

\* A faulty variant of missing: the isfile test is left out.
missing_existence_only(fs, full_path) == ~exists(fs, full_path)

\* "not os.path.exists(full_path) or not os.path.isfile(full_path)"

missing(fs, full_path) == ~exists(fs, full_path) \/ ~isfile(fs, full_path)

Answer(r, route, full_path, rng, out, served) ==
    req' = [ req EXCEPT ![r] =
               [ IdleReq EXCEPT !.pc = "done", !.route = route,
                                !.kind = KindOf(Files, full_path),
                                !.rng = rng,
                                !.status = out.status, !.body = out.body,
                                !.crange = out.crange,
                                !.loc = IF served THEN Normalize(full_path) ELSE NoLoc ] ]

NotFound == [ status |-> 404, body |-> <<>>, crange |-> <<>> ]

\* GET /video/<path:filepath>
video(r, filepath, rng) ==
    /\ Free(r)
    /\ LET full_path == join(BASE_DIR, filepath)
       IN  IF missing(Files, full_path)
           THEN Answer(r, "video", full_path, rng, NotFound, FALSE)
           ELSE LET out == send_file(Files, full_path, rng)
                IN  Answer(r, "video", full_path, rng, out, out.status \in {200, 206})
    /\ UNCHANGED proc

\* GET /play/<path:filepath>: the player page for the file.
play(r, filepath) ==
    /\ Free(r)
    /\ LET full_path == join(BASE_DIR, filepath)
       IN  IF missing(Files, full_path)
           THEN Answer(r, "play", full_path, <<>>, NotFound, FALSE)
           ELSE Answer(r, "play", full_path, <<>>,
                       [ status |-> 200, body |-> <<>>, crange |-> <<>> ], TRUE)
    /\ UNCHANGED proc

\* thumbpath.endswith('/index.jpg')
EndsWithIndexJpg(p) ==
    /\ p.segs[Len(p.segs)] = "index.jpg"
    /\ (p.abs \/ Len(p.segs) >= 2)

\* GET /thumb/<path:thumbpath>
thumb(r, thumbpath) ==
    /\ Free(r)
    /\ LET img_path == join(BASE_DIR, thumbpath)
       IN  IF EndsWithIndexJpg(thumbpath) /\ exists(Files, img_path)
           THEN LET out == send_file(Files, img_path, <<>>)
                IN  Answer(r, "thumb", img_path, <<>>, out, out.status = 200)
           ELSE Answer(r, "thumb", img_path, <<>>, NotFound, FALSE)
    /\ UNCHANGED proc

\* ------------------------------------------------------------------ browse
\* The order sorted() puts the names of the library in (by code point, so the
\* upper-case name comes first).
NameOrder == << "TV", "ep.mp4", "index.jpg", "news", "show" >>

sorted(S) == LET In(n) == n \in S IN SelectSeq(NameOrder, In)

\* os.listdir(path): the names directly below the directory.
listdir(fs, path) ==
    LET loc == Normalize(path)
    IN  { p[Len(p)] : p \in { q \in Dirs \cup fs :
                                 /\ Len(q) = Len(loc) + 1
                                 /\ SubSeq(q, 1, Len(loc)) = loc } }

\* any(f.lower().endswith(ext) for ext in VIDEO_EXTS), on the library's names.
IsVideo(f) == f = "ep.mp4"

\* "for d in dirs:", lines 46-50.  st holds the local variables the loop
\* assigns, each a sequence that is empty while the variable is unset: d,
\* files (set before the loop to the browsed directory's own files) and
\* has_thumb.
RECURSIVE for_d_in_dirs(_, _, _, _)
for_d_in_dirs(fs, full_path, dirs, st) ==
    IF dirs = <<>> THEN st
    ELSE LET d == Head(dirs)
             folder_path == Append(full_path, d)
             files == IF exists(fs, folder_path)
                      THEN listdir(fs, folder_path)
                      ELSE st.files[1]
         IN  for_d_in_dirs(fs, full_path, Tail(dirs),
                           [ d |-> << d >>, files |-> << files >>,
                             has_thumb |-> << "index.jpg" \in files >> ])

\* Lines 30-55 of browse: what it hands to the template, or the failure of
\* reading a local variable that was never set.  The "else" at line 51 is the
\* loop's (the loop has no break, so it always runs), and the append at line
\* 53 comes after the loop.
listing(fs, full_path) ==
    LET items == listdir(fs, full_path)
        dirs == sorted({ i \in items : KindOf(fs, Append(full_path, i)) = "dir" })
        files == { i \in items : isfile(fs, Append(full_path, i)) }
        videos == sorted({ f \in files : IsVideo(f) })
        other_files == sorted({ f \in files : ~IsVideo(f) })
        looped == for_d_in_dirs(fs, full_path, dirs,
                                [ d |-> <<>>, files |-> << files >>, has_thumb |-> <<>> ])
        has_thumb == FALSE
    IN  IF looped.d = <<>>
        THEN [ status |-> 500, dirs |-> <<>>, videos |-> <<>>, other_files |-> <<>> ]
        ELSE [ status |-> 200,
               dirs |-> << [ name |-> looped.d[1], has_thumb |-> has_thumb ] >>,
               videos |-> videos, other_files |-> other_files ]

\* GET /browse/<path:subpath>
browse(r, subpath) ==
    /\ Free(r)
    /\ LET full_path == join(BASE_DIR, subpath)
       IN  IF ~exists(Files, full_path)
           THEN Answer(r, "browse", full_path, <<>>, NotFound, FALSE)
           ELSE IF isfile(Files, full_path)
           THEN LET out == send_file(Files, full_path, <<>>)
                IN  Answer(r, "browse", full_path, <<>>, out, out.status = 200)
           ELSE LET out == listing(Files, full_path)
                IN  req' = [ req EXCEPT ![r] =
                               [ IdleReq EXCEPT !.pc = "done", !.route = "browse",
                                                !.kind = "dir",
                                                !.status = out.status,
                                                !.dir = Normalize(full_path),
                                                !.dirs = out.dirs,
                                                !.videos = out.videos,
                                                !.other_files = out.other_files ] ]
    /\ UNCHANGED proc

\* GET /: browse('')
index(r) == browse(r, [ abs |-> FALSE, segs |-> <<>> ])

\* ------------------------------------------------------- encoder processes
\* One record per process id.  st: "none", "running", "exited" (terminated,
\* exit status not yet collected) or "reaped"; owner: the request whose
\* generate() spawned it; users: the requests that have read from it or
\* terminated it; epc: the encoder's position; outW: the encoder's end of
\* stdout is open; nw: units written to stdout so far (they are 1..nw);
\* pipe: the stdout pipe buffer; errN: units sitting in the stderr pipe buffer;
\* sig: a terminate signal is pending; term: terminate() has been called;
\* crashed: the encoder failed; rdOpen: the server's ends of the stdout and
\* stderr pipes are open (the program never closes them: what the interpreter
\* does with the abandoned Popen object comes after the session).
NoProc ==
    [ st |-> "none", owner |-> 0, users |-> {}, epc |-> "run", outW |-> FALSE,
      nw |-> 0, pipe |-> <<>>, errN |-> 0, sig |-> FALSE, term |-> FALSE,
      crashed |-> FALSE, rdOpen |-> FALSE ]

\* What process p has written to its stdout so far.
Produced(p) == [ i \in 1..proc[p].nw |-> i ]

\* A faulty variant of NewPid: every request is handed the same process.
SharedPid(pr) == 1

\* The process subprocess.Popen hands back: a new one.

NewPid(pr) == CHOOSE p \in Pids : pr[p].st = "none" /\ \A q \in Pids : q < p => pr[q].st # "none"

\* proc.terminate(): polls first, which collects the status of a process that
\* has already exited; a running process is signalled and not waited for.
terminate(pr, p, r) ==
    [ pr EXCEPT ![p] = [ @ EXCEPT !.term = TRUE,
                                  !.users = @ \cup {r},
                                  !.sig = @ \/ pr[p].st = "running",
                                  !.st = IF @ = "exited" THEN "reaped" ELSE @ ] ]

\* A faulty variant of EndOfStream: a read of less than 1 MiB ends the loop.
EndOfStream_on_short_read(data) == Len(data) < ChunkUnits

\* "if not data: break"

EndOfStream(data) == data = <<>>

\* GET /stream/<path:filepath>: the handler, up to "return Response(generate(), ...)".
stream(r, filepath) ==
    /\ Free(r)
    /\ LET full_path == join(BASE_DIR, filepath)
       IN  IF missing(Files, full_path)
           THEN Answer(r, "stream", full_path, <<>>, NotFound, FALSE)
           ELSE req' = [ req EXCEPT ![r] =
                           [ IdleReq EXCEPT !.pc = "ready", !.route = "stream",
                                            !.kind = KindOf(Files, full_path),
                                            !.status = 200,
                                            !.loc = Normalize(full_path) ] ]
    /\ UNCHANGED proc

\* The server's first next() on the body: generate() runs to subprocess.Popen,
\* which takes full_path in its command; generate() does not use it again.
generate_Popen(r) ==
    /\ req[r].pc = "ready"
    /\ LET pid == NewPid(proc)
       IN  /\ proc' = [ proc EXCEPT ![pid] =
                          [ NoProc EXCEPT !.st = "running", !.owner = r,
                                          !.outW = TRUE, !.rdOpen = TRUE ] ]
           /\ req' = [ req EXCEPT ![r].pc = "reading", ![r].proc = pid,
                                  ![r].spawns = @ + 1, ![r].loc = NoLoc ]

\* Popen raises (no such binary, permission denied): the exception leaves
\* generate() before its try.  The Response (status 200) was built before; the
\* server has sent nothing yet and answers 500 itself, or it finishes the
\* response it was given, 200 with no body (the debugger middleware of
\* app.run(debug=True) does the latter).
generate_Popen_raises(r, w) ==
    /\ req[r].pc = "ready"
    /\ req' = [ req EXCEPT ![r].pc = "done", ![r].how = "spawnfail",
                           ![r].spawns = @ + 1, ![r].wire = w, ![r].loc = NoLoc ]
    /\ UNCHANGED proc

\* proc.stdout.read(1024*1024) gathers what is in the pipe ...
generate_read_fill(r) ==
    /\ req[r].pc = "reading"
    /\ LET p == req[r].proc
       IN  /\ proc[p].pipe # <<>>
           /\ Len(req[r].buf) < ChunkUnits
           /\ req' = [ req EXCEPT ![r].buf = Append(@, Head(proc[p].pipe)) ]
           /\ proc' = [ proc EXCEPT ![p].pipe = Tail(@), ![p].users = @ \cup {r} ]

\* ... and returns once it has 1 MiB or the pipe is at EOF; then
\* "if not data: break" (and the finally clause) or "yield data".
generate_read_return(r) ==
    /\ req[r].pc = "reading"
    /\ LET p == req[r].proc
           data == req[r].buf
       IN  /\ \/ Len(data) = ChunkUnits
              \/ proc[p].pipe = <<>> /\ ~proc[p].outW
           /\ IF EndOfStream(data)
              THEN /\ req' = [ req EXCEPT ![r].pc = "done", ![r].how = "eof",
                                          ![r].buf = <<>>, ![r].wire = 200 ]
                   /\ proc' = terminate(proc, p, r)
              ELSE /\ req' = [ req EXCEPT ![r].pc = "yielding", ![r].chunk = data,
                                          ![r].buf = <<>> ]
                   /\ proc' = [ proc EXCEPT ![p].users = @ \cup {r} ]

\* The server writes the yielded chunk to the client and resumes generate().
server_write(r) ==
    /\ req[r].pc = "yielding"
    /\ ~req[r].gone
    /\ req' = [ req EXCEPT ![r].pc = "reading", ![r].sent = @ \o req[r].chunk,
                           ![r].chunk = <<>>, ![r].wire = 200 ]
    /\ UNCHANGED proc

\* The write fails because the client is gone: the server closes the body,
\* GeneratorExit is raised at the yield and the finally clause runs.
server_close(r) ==
    /\ req[r].pc = "yielding"
    /\ req[r].gone
    /\ req' = [ req EXCEPT ![r].pc = "done", ![r].how = "abort", ![r].chunk = <<>> ]
    /\ proc' = terminate(proc, req[r].proc, r)

client_disconnect(r) ==
    /\ req[r].pc \in { "ready", "reading", "yielding" }
    /\ ~req[r].gone
    /\ req' = [ req EXCEPT ![r].gone = TRUE ]
    /\ UNCHANGED proc

\* ------------------------------------------------ the encoder and the system
\* The encoder is at work: not blocked, not exiting, not signalled.
Runs(p) == proc[p].st = "running" /\ proc[p].epc = "run" /\ ~proc[p].sig

\* The encoder (ffmpeg) writes a unit of output to its stdout; a full pipe
\* makes it wait.
encoder_write_stdout(p) ==
    /\ Runs(p)
    /\ proc[p].nw < MaxOut
    /\ Len(proc[p].pipe) < PipeCap
    /\ proc' = [ proc EXCEPT ![p].nw = @ + 1, ![p].pipe = Append(@, proc[p].nw + 1) ]
    /\ UNCHANGED req

\* The encoder writes a unit of log text to its stderr.  stderr=subprocess.PIPE
\* and nothing reads it: what is written stays in the pipe, and a write to the
\* full pipe blocks.
encoder_write_stderr(p) ==
    /\ Runs(p)
    /\ proc' = IF proc[p].errN < PipeCap
               THEN [ proc EXCEPT ![p].errN = @ + 1 ]
               ELSE [ proc EXCEPT ![p].epc = "blocked" ]
    /\ UNCHANGED req

\* The encoder reaches the end of its source and closes its output.
encoder_finish(p) ==
    /\ Runs(p)
    /\ proc[p].nw = MaxOut
    /\ proc' = [ proc EXCEPT ![p].epc = "exiting", ![p].outW = FALSE ]
    /\ UNCHANGED req

\* The encoder fails before the end of its source; the system closes its output.
encoder_crash(p) ==
    /\ Runs(p)
    /\ proc[p].nw < MaxOut
    /\ proc' = [ proc EXCEPT ![p].epc = "exiting", ![p].outW = FALSE,
                             ![p].crashed = TRUE ]
    /\ UNCHANGED req

\* The process that finished or failed becomes a terminated child.
os_exit(p) ==
    /\ proc[p].st = "running" /\ proc[p].epc = "exiting"
    /\ proc' = [ proc EXCEPT ![p].st = "exited" ]
    /\ UNCHANGED req

\* The terminate signal takes effect.
os_kill(p) ==
    /\ proc[p].st = "running" /\ proc[p].sig
    /\ proc' = [ proc EXCEPT ![p].st = "exited", ![p].outW = FALSE ]
    /\ UNCHANGED req

\* ------------------------------------------------------------ specification
Init ==
    /\ req = [ r \in Reqs |-> IdleReq ]
    /\ proc = [ p \in Pids |-> NoProc ]

HandlerStep(r) ==
    \/ generate_Popen(r)
    \/ generate_read_fill(r)
    \/ generate_read_return(r)
    \/ server_write(r)
    \/ server_close(r)

EncoderStep(p) ==
    \/ encoder_write_stdout(p)
    \/ encoder_write_stderr(p)
    \/ encoder_finish(p)
    \/ encoder_crash(p)

SystemStep(p) ==
    \/ os_exit(p)
    \/ os_kill(p)

Next ==
    \/ \E r \in Reqs, path \in Paths, rng \in Ranges : video(r, path, rng)
    \/ \E r \in Reqs, path \in Paths : play(r, path)
    \/ \E r \in Reqs, path \in Paths : thumb(r, path)
    \/ \E r \in Reqs, path \in Paths : browse(r, path)
    \/ \E r \in Reqs : index(r)
    \/ \E r \in Reqs, path \in Paths : stream(r, path)
    \/ \E r \in Reqs : HandlerStep(r)
    \/ \E r \in Reqs, w \in { 200, 500 } : generate_Popen_raises(r, w)
    \/ \E r \in Reqs : client_disconnect(r)
    \/ \E p \in Pids : EncoderStep(p)
    \/ \E p \in Pids : SystemStep(p)

Spec == Init /\ [][Next]_vars

\* The server keeps running the handlers, every encoder that can take a step
\* takes one, and the system completes exits and kills.  Nothing is assumed
\* of clients.
FairSpec ==
    /\ Spec
    /\ \A r \in Reqs : WF_vars(HandlerStep(r))
    /\ \A p \in Pids : WF_vars(EncoderStep(p))
    /\ \A p \in Pids : WF_vars(SystemStep(p))

\* ------------------------------------------------------------------ claims
IsPrefix(s, t) == Len(s) <= Len(t) /\ SubSeq(t, 1, Len(s)) = s

Streaming(r) == req[r].pc \in { "reading", "yielding" }

Running(r) == req[r].proc # 0 /\ proc[req[r].proc].st = "running"

\* C1: every location a handler serves lies strictly inside the library root
\* (otherwise the request fails), whatever the request path.
C1_ServedInsideRoot ==
    \A r \in Reqs : req[r].loc # NoLoc => Inside(req[r].loc)

\* C2: once the client of a stream request with a spawned encoder is gone, the
\* encoder process does not keep running.
C2_DisconnectEndsEncoder ==
    \A r \in Reqs : (req[r].gone /\ Running(r)) ~> ~Running(r)

\* C3: when a transcode session has ended, on whichever path, the encoder has
\* been terminated and the server's ends of its pipes have been closed.
C3_CleanupOnEveryExit ==
    \A r \in Reqs :
        (req[r].pc = "done" /\ req[r].proc # 0)
            => (proc[req[r].proc].term /\ ~proc[req[r].proc].rdOpen)

\* C4: a /video or /stream request for a path that is no regular file is
\* answered 404, and no encoder process is ever spawned for it.
C4_MissingIs404NoSpawn ==
    \A r \in Reqs :
        (req[r].route \in { "video", "stream" } /\ req[r].kind # "file")
            => /\ req[r].pc = "done"
               /\ req[r].status = 404
               /\ req[r].spawns = 0
               /\ req[r].proc = 0
               /\ \A p \in Pids : proc[p].owner # r

C4_Witness ==
    /\ req[1].route = "video" /\ req[1].kind = "none" /\ req[1].status = 404
    /\ req[2].route = "stream" /\ req[2].kind = "dir" /\ req[2].status = 404

\* C5: with a client that keeps reading, a transcode never stays stuck: the
\* encoder is not held up by its stderr, and the stream reaches its end.
C5_StreamReachesEnd ==
    \A r \in Reqs : (Streaming(r) /\ ~req[r].gone) ~> (req[r].pc = "done" \/ req[r].gone)

\* C6: a stream request spawns at most one encoder, exactly one once it
\* streams; every process belongs to the one request that spawned it, and only
\* that request reads from it or terminates it.
C6_OneProcessPerRequest ==
    /\ \A r \in Reqs :
        /\ req[r].spawns <= 1
        /\ (Streaming(r) \/ req[r].how \in { "eof", "abort" })
              => /\ req[r].spawns = 1
                 /\ req[r].proc # 0
                 /\ proc[req[r].proc].owner = r
        /\ \A q \in Reqs : (q # r /\ req[r].proc # 0) => req[q].proc # req[r].proc
    /\ \A p \in Pids :
        proc[p].st # "none"
            => /\ proc[p].owner \in Reqs
               /\ req[proc[p].owner].proc = p
               /\ proc[p].users \subseteq { proc[p].owner }

C6_Witness ==
    /\ Streaming(1) /\ Streaming(2)
    /\ proc[req[1].proc].users = {1}
    /\ proc[req[2].proc].users = {2}

\* C7: GET /video with "Range: bytes=N-M", 0 <= N <= M < L, on a regular file
\* of length L: status 206, the M-N+1 bytes from offset N, Content-Range
\* "bytes N-M/L".
C7_RangeServed ==
    \A r \in Reqs :
        (/\ req[r].route = "video" /\ req[r].kind = "file"
         /\ req[r].rng # <<>>
         /\ req[r].rng[2] < FileLen)
            => LET N == req[r].rng[1]
                   M == req[r].rng[2]
                   whole == Content(req[r].loc)
               IN  /\ req[r].status = 206
                   /\ Len(req[r].body) = M - N + 1
                   /\ \A i \in 1..(M - N + 1) : req[r].body[i] = whole[N + i]
                   /\ req[r].crange = << N, M, Len(whole) >>

C7_Witness ==
    \E r \in Reqs :
        /\ req[r].route = "video" /\ req[r].status = 206
        /\ req[r].rng = << 1, FileLen - 1 >>
        /\ Inside(req[r].loc)

\* C8: when the encoder cannot be launched the request fails with a 5xx
\* status, after a single launch attempt and with no process left.
C8_LaunchFailureIs500 ==
    \A r \in Reqs :
        req[r].how = "spawnfail"
            => /\ req[r].wire >= 500
               /\ req[r].spawns = 1
               /\ req[r].proc = 0

\* C9: what the client has been sent is a prefix of what the encoder wrote to
\* stdout; while the session streams, the bytes sent, the one chunk held, the
\* read under way and the pipe together are exactly the encoder's output, in
\* order; a chunk is non-empty and at most 1 MiB; the next read starts only
\* after the chunk was handed over; the stream ends normally only at the
\* encoder's EOF, with everything delivered.
C9_PushPipeline ==
    \A r \in Reqs :
        req[r].proc # 0 =>
            LET p == req[r].proc
            IN  /\ IsPrefix(req[r].sent, Produced(p))
                /\ Streaming(r)
                      => req[r].sent \o req[r].chunk \o req[r].buf \o proc[p].pipe
                            = Produced(p)
                /\ req[r].pc = "yielding"
                      => /\ req[r].chunk # <<>>
                         /\ Len(req[r].chunk) <= ChunkUnits
                         /\ req[r].buf = <<>>
                /\ req[r].pc # "yielding" => req[r].chunk = <<>>
                /\ Len(req[r].buf) <= ChunkUnits
                /\ req[r].how = "eof"
                      => /\ ~proc[p].outW
                         /\ req[r].sent = Produced(p)

C9_Witness ==
    \E r \in Reqs :
        /\ req[r].how = "eof"
        /\ Len(req[r].sent) = MaxOut
        /\ MaxOut > ChunkUnits

\* C10: after an encoder crash in mid-stream, once the request has finished
\* no terminated child is left whose exit status was not collected.
C10_CrashedEncoderReaped ==
    \A r \in Reqs :
        (/\ req[r].pc = "done" /\ req[r].how = "eof" /\ req[r].sent # <<>>
         /\ req[r].proc # 0 /\ proc[req[r].proc].crashed)
            => proc[req[r].proc].st # "exited"

\* C11: every browse of an existing directory, one without subdirectories
\* included, succeeds and hands the template exactly one entry per
\* subdirectory of that directory, in sorted order, each flagged has_thumb
\* exactly when that subdirectory contains a file named index.jpg.
C11_ListingMatchesDirectory ==
    \A r \in Reqs :
        (req[r].route = "browse" /\ req[r].kind = "dir") =>
            LET here == req[r].dir
                IsSub(n) == Append(here, n) \in Dirs
                sub == SelectSeq(NameOrder, IsSub)
            IN  /\ req[r].status = 200
                /\ Len(req[r].dirs) = Len(sub)
                /\ \A i \in 1..Len(sub) :
                       /\ req[r].dirs[i].name = sub[i]
                       /\ req[r].dirs[i].has_thumb
                              = (Append(Append(here, sub[i]), "index.jpg") \in Files)

====
